---- MODULE Spec2Model ----
(***************************************************************************)
(* pyCloudSave: the save synchronisation engine.                           *)
(*                                                                         *)
(* One invocation of the program is one command.  The persisted state is   *)
(* the local registry file, the save files on disk, the remote registry    *)
(* document, the remote artifacts and the temp folder.  A command runs as  *)
(* a sequence of steps (pc); it can fail or be killed before any step, in  *)
(* which case the exception leaves the process and the invocation ends     *)
(* with whatever was persisted so far.                                     *)
(***************************************************************************)
EXTENDS Integers, Sequences, FiniteSets, TLC

VARIABLES
    now,        \* the wall clock (datetime.now(), st_mtime)
    lreg,       \* the persisted local registry: key -> save record
    files,      \* the local file system: root -> file name -> [mtime, data]
    rreg,       \* the persisted remote registry: key -> save record
    arts,       \* the remote artifacts "<key>.zip": key -> archive
    tmp,        \* the temp folder: key -> archive
    pc,         \* the step the running invocation is at ("idle": none runs)
    cmd,        \* the operation the running invocation performs
    key,        \* the id_name the running operation works on
    mem,        \* the values the running invocation holds in memory
    decision,   \* what _sync decided in the running invocation
    result,     \* "ok", what the command reported, or the step at which it failed
    start,      \* the persisted registries when the invocation started
    prev,       \* the previous invocation, where it was a sync that transferred
                \* and no file was changed from outside since it started
    doc_version, \* the version tags of the two persisted registry documents
    input,      \* the arguments of the function under study
    output,     \* what the function under study returned
    other       \* the machine that is not running a command: its number, its
                \* local registry, its file system and its temp folder

vars == <<now, lreg, files, rreg, arts, tmp, pc, cmd, key, mem, decision, result, start,
          prev, doc_version, input, output, other>>

\* A registry document is written only by an invocation that loaded it (or
\* found none, and then writes the supported tag), so no step of a command
\* changes a version tag; the commands do not touch the function study.
Fixed == <<doc_version, input, output, other>>

----------------------------------------------------------------------------
(* Bounds *)

MaxTime == 2

\* the names a save is given; the user tracks saves under TrackNames
Names == {<<"A">>, <<"B">>}
TrackNames == {<<"A">>}
Roots == {"r1"}
FilterExprs == {<<>>}
Versions == {"v1"}
FileNames == {<<"s">>}
Data == {"d1", "d2"}

----------------------------------------------------------------------------
(* Python values *)

\* Python's None in a timestamp field
None == -1

\* MIN_DATE = datetime(MINYEAR, 1, 1); every real timestamp is later
MIN_DATE == 0

\* the version tag each module supports and writes
LOCAL_REGISTRY_VERSION == "1.0"
REMOTE_REGISTRY_VERSION == "1.0"

Put(f, k, v) == [x \in DOMAIN f \cup {k} |-> IF x = k THEN v ELSE f[x]]
Del(f, k) == [x \in DOMAIN f \ {k} |-> f[x]]
EmptyMap == [x \in {} |-> 0]

RECURSIVE SetMax(_, _)
SetMax(S, acc) ==
    IF S = {} THEN acc
    ELSE LET x == CHOOSE y \in S : TRUE
         IN  SetMax(S \ {x}, IF x > acc THEN x ELSE acc)

----------------------------------------------------------------------------
(* common.py: names *)

Lower(c) ==
    CASE c = "A" -> "a"
      [] c = "B" -> "b"
      [] OTHER -> c

IsSpaceOrUnderscore(c) == c \in {" ", "_"}

\* \w without the underscore, which never survives the split
IsWordChar(c) == c \in {"a", "b", "d", "n", "A", "B", "1", "2"}

RECURSIVE DropSeparators(_)
DropSeparators(s) ==
    IF s # <<>> /\ IsSpaceOrUnderscore(Head(s)) THEN DropSeparators(Tail(s)) ELSE s

\* re.split(r"[\s_]+", name): a run of separators ends one part
RECURSIVE ReSplit(_, _, _)
ReSplit(s, cur, acc) ==
    IF s = <<>> THEN Append(acc, cur)
    ELSE IF IsSpaceOrUnderscore(Head(s))
         THEN ReSplit(DropSeparators(Tail(s)), <<>>, Append(acc, cur))
         ELSE ReSplit(Tail(s), Append(cur, Head(s)), acc)

MapLower(s) == [i \in 1..Len(s) |-> Lower(s[i])]

\* a part that keeps its letter case
Mut_NormPart(part) ==
    LET p == IF part = <<"&">> THEN <<"a", "n", "d">> ELSE part
    IN  SelectSeq(p, IsWordChar)

NormPart(part) ==
    LET p == IF part = <<"&">> THEN <<"a", "n", "d">> ELSE part
    IN  SelectSeq(MapLower(p), IsWordChar)

normalized_split(name) ==
    LET parts == ReSplit(name, <<>>, <<>>)
        normed == [i \in 1..Len(parts) |-> NormPart(parts[i])]
    IN  SelectSeq(normed, LAMBDA p : p # <<>>)

RECURSIVE Join(_)
Join(parts) ==
    IF parts = <<>> THEN <<>>
    ELSE IF Len(parts) = 1 THEN parts[1]
    ELSE parts[1] \o <<"_">> \o Join(Tail(parts))

normalize_name(name) == Join(normalized_split(name))

\* re.search(".*?".join(parts), s): the parts occur in s in this order
RECURSIVE ContainsInOrder(_, _)
ContainsInOrder(parts, s) ==
    IF parts = <<>> THEN TRUE
    ELSE LET p == Head(parts)
         IN  \E i \in 1..(Len(s) - Len(p) + 1) :
                /\ SubSeq(s, i, i + Len(p) - 1) = p
                /\ ContainsInOrder(Tail(parts), SubSeq(s, i + Len(p), Len(s)))

\* a search that has no shortcut for the exact key
Mut_normalized_search(keys, name) ==
    {k \in keys : ContainsInOrder(normalized_split(name), k)}

\* normalized_search: the exact key if there is one, else every key the
\* parts of the name are found in
normalized_search(keys, name) ==
    LET parts == normalized_split(name)
        exact_name == Join(parts)
    IN  IF exact_name \in keys THEN {exact_name}
        ELSE {k \in keys : ContainsInOrder(parts, k)}

\* find_save: the key of the entry it returns, or the error it raises
find_save(keys, search_name) ==
    LET results == normalized_search(keys, search_name)
    IN  IF results = {} THEN [error |-> "SaveNotFoundError", id_name |-> <<>>]
        ELSE IF Cardinality(results) > 1
             THEN [error |-> "MultipleSavesFoundError", id_name |-> <<>>]
             ELSE [error |-> "none", id_name |-> CHOOSE k \in results : TRUE]

Keys == {normalize_name(n) : n \in Names}

----------------------------------------------------------------------------
(* local.py: the files of a save *)

RECURSIVE StripLeft(_)
StripLeft(s) == IF s # <<>> /\ Head(s) = " " THEN StripLeft(Tail(s)) ELSE s

RECURSIVE StripRight(_)
StripRight(s) ==
    IF s # <<>> /\ s[Len(s)] = " " THEN StripRight(SubSeq(s, 1, Len(s) - 1)) ELSE s

\* re.split(r"\s*\,\s*", filters): the comma takes the blanks around it
RECURSIVE SplitFilters(_, _, _)
SplitFilters(s, cur, acc) ==
    IF s = <<>> THEN Append(acc, cur)
    ELSE IF Head(s) = ","
         THEN SplitFilters(StripLeft(Tail(s)), <<>>, Append(acc, StripRight(cur)))
         ELSE SplitFilters(Tail(s), Append(cur, Head(s)), acc)

\* os.path.join(*re.split(r"\\|/", _filter)): separators become the host's
HostPath(glob) == [i \in 1..Len(glob) |-> IF glob[i] = "\\" THEN "/" ELSE glob[i]]

\* the tokens of a filter expression: [neg, glob]
FilterTokens(expr) ==
    LET raw == SelectSeq(SplitFilters(expr, <<>>, <<>>), LAMBDA t : t # <<>>)
    IN  [i \in 1..Len(raw) |->
            IF Head(raw[i]) = "!"
            THEN [neg |-> TRUE, glob |-> HostPath(Tail(raw[i]))]
            ELSE [neg |-> FALSE, glob |-> HostPath(raw[i])]]

\* a match in which * stops at a path separator
RECURSIVE Mut_GlobMatch(_, _)
Mut_GlobMatch(glob, s) ==
    IF glob = <<>> THEN s = <<>>
    ELSE IF Head(glob) = "*"
         THEN \/ Mut_GlobMatch(Tail(glob), s)
              \/ (s # <<>> /\ Head(s) # "/" /\ Mut_GlobMatch(glob, Tail(s)))
         ELSE s # <<>> /\ Head(s) = Head(glob) /\ Mut_GlobMatch(Tail(glob), Tail(s))

\* re.fullmatch of ".*?".join(re.escape(s) for s in glob.split('*'))
RECURSIVE GlobMatch(_, _)
GlobMatch(glob, s) ==
    IF glob = <<>> THEN s = <<>>
    ELSE IF Head(glob) = "*"
         THEN GlobMatch(Tail(glob), s) \/ (s # <<>> /\ GlobMatch(glob, Tail(s)))
         ELSE s # <<>> /\ Head(s) = Head(glob) /\ GlobMatch(Tail(glob), Tail(s))

Selects(expr, fname) ==
    LET toks == FilterTokens(expr)
    IN  /\ \A i \in 1..Len(toks) : ~toks[i].neg => GlobMatch(toks[i].glob, fname)
        /\ \A i \in 1..Len(toks) : toks[i].neg => ~GlobMatch(toks[i].glob, fname)

\* Local._get_save_files: the regular files under root the filters select;
\* root.glob finds nothing under a root that does not exist
GetSaveFiles(save) ==
    IF save.root \notin DOMAIN files THEN {}
    ELSE {f \in DOMAIN files[save.root] : Selects(save.filters, f)}

\* Local._get_last_mod_time
GetLastModTime(save) ==
    LET latest_ts == SetMax({files[save.root][f].mtime : f \in GetSaveFiles(save)}, 0)
    IN  IF latest_ts = 0 THEN None ELSE latest_ts

\* a pack that takes every file under the root
Mut_PackSaveFiles(save) ==
    [f \in DOMAIN files[save.root] |-> files[save.root][f].data]

\* ZipFile.write raises ValueError for a file stamped before 1980, which
\* only a file stamped at the epoch or before is here
PackFails(save) == \E f \in GetSaveFiles(save) : files[save.root][f].mtime <= 0

\* Local.pack_save_files: the archive written to the output file
PackSaveFiles(save) ==
    [f \in GetSaveFiles(save) |-> files[save.root][f].data]

\* Local.unpack_save_files: extractall writes every entry, stamped with the
\* time of extraction; files that are not in the archive stay
UnpackSaveFiles(save, archive) ==
    [files EXCEPT ![save.root] =
        [f \in DOMAIN files[save.root] \cup DOMAIN archive |->
            IF f \in DOMAIN archive
            THEN [mtime |-> now, data |-> archive[f]]
            ELSE files[save.root][f]]]

----------------------------------------------------------------------------
(* State *)

\* an optional argument: {} when it is not given (None), {x} when it is x
Opt(S) == {{}} \cup {{x} : x \in S}
NoArgs == [root |-> {}, filters |-> {}, version |-> {}]

NoMem == [lmod |-> None, lsync |-> None, rup |-> None, stamp |-> None,
          had_remote |-> FALSE, new_name |-> <<>>, touched |-> FALSE,
          todo |-> <<>>, lmods |-> EmptyMap, name |-> <<>>, yes |-> FALSE,
          args |-> NoArgs]
NoStart == [lreg |-> EmptyMap, rreg |-> EmptyMap]
NoPrev == [key |-> <<>>, decision |-> "none", result |-> "none"]
Supported == [local |-> LOCAL_REGISTRY_VERSION, remote |-> REMOTE_REGISTRY_VERSION]
NoInput == [fn |-> "none"]
NoOutput == [fn |-> "none"]
\* the other machine before it was used: nothing is tracked, no file exists
NoOther == [id |-> 2, lreg |-> EmptyMap, files |-> [r \in Roots |-> EmptyMap], tmp |-> EmptyMap]

Init ==
    /\ now = 1
    /\ lreg = EmptyMap
    /\ files = [r \in Roots |-> EmptyMap]
    /\ rreg = EmptyMap
    /\ arts = EmptyMap
    /\ tmp = EmptyMap
    /\ pc = "idle"
    /\ cmd = "none"
    /\ key = <<>>
    /\ mem = NoMem
    /\ decision = "none"
    /\ result = "none"
    /\ start = NoStart
    /\ prev = NoPrev
    /\ doc_version = Supported
    /\ input = NoInput
    /\ output = NoOutput
    /\ other = NoOther

Persisted == <<lreg, files, rreg, arts, tmp>>
InMemory == <<pc, cmd, key, mem, decision, result, start>>

\* an invocation starts: the command, its key, what it read, where it goes
Begin(c, k, m, d, next, res) ==
    /\ pc' = next
    /\ cmd' = c
    /\ key' = k
    /\ mem' = m
    /\ decision' = d
    /\ result' = res
    /\ start' = [lreg |-> lreg, rreg |-> rreg]
    /\ prev' = prev

\* where control is after a step: when _sync returns inside the loop of
\* sync --all, the loop takes the next key
After(next, todo) == IF next = "done" /\ todo # <<>> THEN "sync_next" ELSE next

Goto(next) ==
    /\ pc' = After(next, mem.todo)
    /\ result' = IF After(next, mem.todo) = "done" THEN "ok" ELSE result
    /\ UNCHANGED <<cmd, key, mem, decision, start, prev>>

----------------------------------------------------------------------------
(* The world outside the program *)

\* The program reads the clock and the files at these steps; a step of the
\* world at any other point commutes with the program's steps up to the next
\* of these.
EnvPoints == {"idle", "up_file", "ld_unpack", "ld_lreg"}

Tick ==
    /\ pc \in EnvPoints
    /\ now < MaxTime
    /\ now' = now + 1
    /\ UNCHANGED <<Fixed, Persisted, InMemory, prev>>

WriteFile(root, f, d) ==
    /\ pc \in EnvPoints
    /\ files' = [files EXCEPT ![root] = Put(files[root], f, [mtime |-> now, data |-> d])]
    /\ prev' = NoPrev
    /\ mem' = [mem EXCEPT !.touched = (pc # "idle")]
    /\ UNCHANGED <<Fixed, now, lreg, rreg, arts, tmp, pc, cmd, key, decision, result, start>>

RemoveFile(root, f) ==
    /\ pc \in EnvPoints
    /\ f \in DOMAIN files[root]
    /\ files' = [files EXCEPT ![root] = Del(files[root], f)]
    /\ prev' = NoPrev
    /\ mem' = [mem EXCEPT !.touched = (pc # "idle")]
    /\ UNCHANGED <<Fixed, now, lreg, rreg, arts, tmp, pc, cmd, key, decision, result, start>>

----------------------------------------------------------------------------
(* local.py: the local registry *)

\* track that marks the new save as synchronised at the minimum time
Mut_TrackedSave(name, root, filters, version) ==
    [name |-> name, root |-> root, filters |-> filters, version |-> version,
     last_sync |-> MIN_DATE, id_name |-> normalize_name(name)]

\* Local.track: the new entry
TrackedSave(name, root, filters, version) ==
    [name |-> name, root |-> root, filters |-> filters, version |-> version,
     last_sync |-> None, id_name |-> normalize_name(name)]

\* Local.edit(save_name, last_sync=...) followed by _save_registry
EditLastSync(id_name, last_sync) ==
    IF last_sync # None
    THEN [lreg EXCEPT ![id_name].last_sync = last_sync]
    ELSE lreg

\* "if arg:" the argument is given and is not the empty value of its type
Given(arg, empty) == arg # {} /\ arg # {empty}
Value(arg) == CHOOSE x \in arg : TRUE

\* Local.edit(save_name, new_name, root, filters, version, last_sync) on the
\* registry reg; a timestamp is never an empty value
Edit(reg, save_name, args) ==
    LET save == reg[save_name]
        edited ==
            [save EXCEPT
                !.root = IF Given(args.root, "") THEN Value(args.root) ELSE @,
                !.filters = IF Given(args.filters, <<>>) THEN Value(args.filters) ELSE @,
                !.version = IF Given(args.version, "") THEN Value(args.version) ELSE @,
                !.last_sync = IF args.last_sync # {} THEN Value(args.last_sync) ELSE @]
    IN  IF Given(args.new_name, <<>>)
        THEN LET new_name == Value(args.new_name)
                 new_id_name == normalize_name(new_name)
             IN  IF new_id_name # save_name
                 THEN Put(Del(reg, save_name), new_id_name,
                          [edited EXCEPT !.name = new_name, !.id_name = new_id_name])
                 ELSE Put(reg, save_name, [edited EXCEPT !.name = new_name])
        ELSE Put(reg, save_name, edited)

\* Local._load_registry: the version check
LocalLoads == doc_version.local = LOCAL_REGISTRY_VERSION

\* Application(remote): Local() fails to load the registry, whatever the
\* command is
LoadRegistryFails ==
    /\ pc = "idle"
    /\ ~LocalLoads
    /\ Begin("start", <<>>, NoMem, "none", "done", "load_registry")
    /\ UNCHANGED <<Fixed, now, Persisted>>

\* Local.track
Track(name, root, filters, version) ==
    /\ pc = "idle"
    /\ LET id_name == normalize_name(name)
       IN  IF id_name \in DOMAIN lreg
           THEN /\ Begin("track", id_name, NoMem, "none", "done", "track")
                /\ UNCHANGED lreg
           ELSE /\ Begin("track", id_name, NoMem, "none", "done", "ok")
                /\ lreg' = Put(lreg, id_name, TrackedSave(name, root, filters, version))
    /\ UNCHANGED <<Fixed, now, files, rreg, arts, tmp>>

\* Application.command_untrack
Untrack(id_name) ==
    /\ pc = "idle"
    /\ id_name \in DOMAIN lreg
    /\ Begin("untrack", id_name, NoMem, "none", "done", "ok")
    /\ lreg' = Del(lreg, id_name)
    /\ UNCHANGED <<Fixed, now, files, rreg, arts, tmp>>

----------------------------------------------------------------------------
(* remote.py: the remote registry *)

\* get_registry that reads a document of any version
Mut_RegistryLoads == \A k \in DOMAIN rreg : rreg[k].last_upload # None

\* FilebasedRemote.get_registry: the version check, then strptime of every
\* entry's last_upload
RegistryLoads ==
    /\ doc_version.remote = REMOTE_REGISTRY_VERSION
    /\ \A k \in DOMAIN rreg : rreg[k].last_upload # None

\* FilebasedRemote.register_new_save: the new entry
RegisteredSave(name, root_hint, filters_hint, version) ==
    [name |-> name, root_hint |-> root_hint, filters_hint |-> filters_hint,
     version |-> version, last_upload |-> None, id_name |-> normalize_name(name)]

\* FilebasedRemote.register_new_save followed by _save_registry
RegisterNewSave(name, root_hint, filters_hint, version) ==
    Put(rreg, normalize_name(name), RegisteredSave(name, root_hint, filters_hint, version))

\* upload_save that records the size and forgets the timestamp
Mut_UploadedSave(save, datetime, file) ==
    ("size" :> Cardinality(DOMAIN file)) @@ save

\* FilebasedRemote.upload_save: the entry written after the artifact is stored
UploadedSave(save, datetime, file) ==
    ("size" :> Cardinality(DOMAIN file)) @@ [save EXCEPT !.last_upload = datetime]

----------------------------------------------------------------------------
(* pyCloudSave.py: the reconciler *)

OrMinDate(t) == IF t # None THEN t ELSE MIN_DATE

\* what remote.get_save(id_name) gives for last_upload (None: no entry)
RemoteLastUpload(id_name) ==
    IF id_name \in DOMAIN rreg THEN rreg[id_name].last_upload ELSE None

\* is_remote_updated with a non-strict comparison
Mut_is_remote_updated(remote_last_upload, local_last_sync) ==
    OrMinDate(remote_last_upload) >= OrMinDate(local_last_sync)

\* Application.is_remote_updated
is_remote_updated(remote_last_upload, local_last_sync) ==
    OrMinDate(remote_last_upload) > OrMinDate(local_last_sync)

\* is_local_updated that takes files as old as the last sync for changed
Mut_is_local_updated(local_last_modification, local_last_sync) ==
    OrMinDate(local_last_modification) >= OrMinDate(local_last_sync)

\* Application.is_local_updated
is_local_updated(local_last_modification, local_last_sync) ==
    OrMinDate(local_last_modification) > OrMinDate(local_last_sync)

\* Application._sync: the branch taken
\* _sync that looks at the local side first
Mut_SyncDecision(lmod, lsync, rup) ==
    IF is_local_updated(lmod, lsync) THEN "upload"
    ELSE IF is_remote_updated(rup, lsync) THEN "download"
    ELSE "noop"

SyncDecision(lmod, lsync, rup) ==
    LET remote_updated == is_remote_updated(rup, lsync)
        local_updated == is_local_updated(lmod, lsync)
    IN  IF remote_updated /\ local_updated THEN "conflict"
        ELSE IF local_updated THEN "upload"
        ELSE IF remote_updated THEN "download"
        ELSE "noop"

\* _sync that uploads where both sides changed
Mut_SyncTarget(d) ==
    CASE d \in {"upload", "conflict"} -> "up_register"
      [] d = "download" -> "ld_file"
      [] OTHER -> "done"

\* where _sync goes after its decision
SyncTarget(d) ==
    CASE d = "upload" -> "up_register"
      [] d = "download" -> "ld_file"
      [] OTHER -> "done"

\* (mem.touched: the world changed a file while the invocation ran)
\* what an invocation reads when it starts: Local() recomputes
\* last_modification, the remote registry is loaded on first use
Loaded(id_name) ==
    [NoMem EXCEPT !.lmod = GetLastModTime(lreg[id_name]),
                  !.lsync = lreg[id_name].last_sync,
                  !.rup = RemoteLastUpload(id_name),
                  !.had_remote = id_name \in DOMAIN rreg]

\* Application.command_sync with a name: _sync(id_name)
Sync(id_name) ==
    /\ pc = "idle"
    /\ id_name \in DOMAIN lreg
    /\ IF ~RegistryLoads
       THEN Begin("sync", id_name, NoMem, "none", "done", "get_registry")
       ELSE LET m == Loaded(id_name)
                d == SyncDecision(m.lmod, m.lsync, m.rup)
            IN  Begin("sync", id_name, m, d, SyncTarget(d), "ok")
    /\ UNCHANGED <<Fixed, now, Persisted>>

\* Application.command_upload: the user confirms where asked
CommandUpload(id_name, yes) ==
    /\ pc = "idle"
    /\ id_name \in DOMAIN lreg
    /\ IF ~RegistryLoads
       THEN Begin("upload", id_name, NoMem, "none", "done", "get_registry")
       ELSE LET m == Loaded(id_name)
                asks == \/ is_remote_updated(m.rup, m.lsync)
                        \/ ~is_local_updated(m.lmod, m.lsync)
            IN  IF asks /\ ~yes
                THEN Begin("upload", id_name, m, "none", "done", "declined")
                ELSE Begin("upload", id_name, m, "none", "up_register", "ok")
    /\ UNCHANGED <<Fixed, now, Persisted>>

\* Application.command_load: the user confirms where asked
CommandLoad(id_name, yes) ==
    /\ pc = "idle"
    /\ id_name \in DOMAIN lreg
    /\ IF ~RegistryLoads
       THEN Begin("load", id_name, NoMem, "none", "done", "get_registry")
       ELSE LET m == Loaded(id_name)
                asks == \/ is_local_updated(m.lmod, m.lsync)
                        \/ is_remote_updated(m.rup, m.lsync)
            IN  IF id_name \notin DOMAIN rreg
                THEN Begin("load", id_name, m, "none", "done", "not_present")
                ELSE IF asks /\ ~yes
                THEN Begin("load", id_name, m, "none", "done", "declined")
                ELSE Begin("load", id_name, m, "none", "ld_file", "ok")
    /\ UNCHANGED <<Fixed, now, Persisted>>

----------------------------------------------------------------------------
(* Application._upload, step by step *)

\* remote.get_save; register_new_save when there is no remote entry
UploadRegister ==
    /\ pc = "up_register"
    /\ LET local_save == lreg[key]
       IN  rreg' = IF key \in DOMAIN rreg THEN rreg
                   ELSE RegisterNewSave(local_save.name, local_save.root,
                                        local_save.filters, local_save.version)
    /\ Goto("up_pack")
    /\ UNCHANGED <<Fixed, now, lreg, files, arts, tmp>>

\* local.pack_save_files(id_name, tmp_file)
UploadPack ==
    /\ pc = "up_pack"
    /\ tmp' = Put(tmp, key, PackSaveFiles(lreg[key]))
    /\ Goto("up_file")
    /\ UNCHANGED <<Fixed, now, lreg, files, rreg, arts>>

\* _datetime = datetime.now(); upload_save: fs.upload_file
UploadFile ==
    /\ pc = "up_file"
    /\ key \in DOMAIN rreg
    /\ arts' = Put(arts, key, tmp[key])
    /\ pc' = "up_rreg"
    /\ mem' = [mem EXCEPT !.stamp = now]
    /\ UNCHANGED <<Fixed, now, lreg, files, rreg, tmp, cmd, key, decision, result, start, prev>>

\* upload_save: last_upload, size, _save_registry
UploadRemoteRegistry ==
    /\ pc = "up_rreg"
    /\ rreg' = [rreg EXCEPT ![key] = UploadedSave(rreg[key], mem.stamp, tmp[key])]
    /\ Goto("up_lreg")
    /\ UNCHANGED <<Fixed, now, lreg, files, arts, tmp>>

\* local.edit(id_name, last_sync=_datetime)
UploadLocalRegistry ==
    /\ pc = "up_lreg"
    /\ lreg' = EditLastSync(key, mem.stamp)
    /\ Goto("up_unlink")
    /\ UNCHANGED <<Fixed, now, files, rreg, arts, tmp>>

\* tmp_file.unlink()
UploadUnlink ==
    /\ pc = "up_unlink"
    /\ tmp' = Del(tmp, key)
    /\ Goto("done")
    /\ UNCHANGED <<Fixed, now, lreg, files, rreg, arts>>

----------------------------------------------------------------------------
(* Application._load, step by step *)

\* load_save that creates the output file before it looks for the artifact
Mut_LoadFile ==
    /\ pc = "ld_file"
    /\ IF key \in DOMAIN arts
       THEN /\ tmp' = Put(tmp, key, arts[key])
            /\ Goto("ld_unpack")
       ELSE /\ tmp' = Put(tmp, key, EmptyMap)
            /\ pc' = "done"
            /\ result' = "ld_file"
            /\ UNCHANGED <<cmd, key, mem, decision, start, prev>>
    /\ UNCHANGED <<Fixed, now, lreg, files, rreg, arts>>

\* FilebasedRemote.load_save: FileDoesNotExistError becomes KeyError
LoadFile ==
    /\ pc = "ld_file"
    /\ IF key \in DOMAIN arts
       THEN /\ tmp' = Put(tmp, key, arts[key])
            /\ Goto("ld_unpack")
       ELSE /\ tmp' = tmp
            /\ pc' = "done"
            /\ result' = "ld_file"
            /\ UNCHANGED <<cmd, key, mem, decision, start, prev>>
    /\ UNCHANGED <<Fixed, now, lreg, files, rreg, arts>>

\* local.unpack_save_files(id_name, tmp_file)
LoadUnpack ==
    /\ pc = "ld_unpack"
    /\ files' = UnpackSaveFiles(lreg[key], tmp[key])
    /\ Goto("ld_lreg")
    /\ UNCHANGED <<Fixed, now, lreg, rreg, arts, tmp>>

\* local.edit(id_name, last_sync=datetime.now())
LoadLocalRegistry ==
    /\ pc = "ld_lreg"
    /\ lreg' = EditLastSync(key, now)
    /\ Goto("ld_unlink")
    /\ UNCHANGED <<Fixed, now, files, rreg, arts, tmp>>

\* tmp_file.unlink()
LoadUnlink ==
    /\ pc = "ld_unlink"
    /\ tmp' = Del(tmp, key)
    /\ Goto("done")
    /\ UNCHANGED <<Fixed, now, lreg, files, rreg, arts>>

----------------------------------------------------------------------------
(* remote.py: delete_save and edit_save, step by step *)

\* Application.command_remote_delete: find_save, then delete_save
RemoteDelete(id_name) ==
    /\ pc = "idle"
    /\ IF ~RegistryLoads
       THEN Begin("delete", id_name, NoMem, "none", "done", "get_registry")
       ELSE /\ id_name \in DOMAIN rreg
            /\ Begin("delete", id_name, NoMem, "none", "del_file", "ok")
    /\ UNCHANGED <<Fixed, now, Persisted>>

\* delete_save that commits the registry before it deletes the artifact
Mut_DeleteFile ==
    /\ pc = "del_file"
    /\ key \in DOMAIN arts
    /\ rreg' = Del(rreg, key)
    /\ Goto("del_rreg")
    /\ UNCHANGED <<Fixed, now, lreg, files, arts, tmp>>

\* delete_save: fs.delete_file, after the entry left the in-memory registry
DeleteFile ==
    /\ pc = "del_file"
    /\ key \in DOMAIN arts
    /\ arts' = Del(arts, key)
    /\ Goto("del_rreg")
    /\ UNCHANGED <<Fixed, now, lreg, files, rreg, tmp>>

\* delete_save: _save_registry
DeleteRemoteRegistry ==
    /\ pc = "del_rreg"
    /\ rreg' = Del(rreg, key)
    /\ Goto("done")
    /\ UNCHANGED <<Fixed, now, lreg, files, arts, tmp>>

\* Application.command_remote_edit with a new name: find_save, then edit_save
RemoteEdit(id_name, new_name) ==
    /\ pc = "idle"
    /\ IF ~RegistryLoads
       THEN Begin("remote_edit", id_name, NoMem, "none", "done", "get_registry")
       ELSE /\ id_name \in DOMAIN rreg
            /\ Begin("remote_edit", id_name, [NoMem EXCEPT !.new_name = new_name], "none",
                     IF normalize_name(new_name) # id_name THEN "ren_file" ELSE "ren_rreg",
                     "ok")
    /\ UNCHANGED <<Fixed, now, Persisted>>

\* edit_save: fs.rename_file, after the entry was re-keyed in memory
RenameFile ==
    /\ pc = "ren_file"
    /\ key \in DOMAIN arts
    /\ arts' = Put(Del(arts, key), normalize_name(mem.new_name), arts[key])
    /\ Goto("ren_rreg")
    /\ UNCHANGED <<Fixed, now, lreg, files, rreg, tmp>>

\* edit_save that changes the name where the entry is
Mut_RenameRemoteRegistry ==
    /\ pc = "ren_rreg"
    /\ rreg' = [rreg EXCEPT ![key].name = mem.new_name]
    /\ Goto("done")
    /\ UNCHANGED <<Fixed, now, lreg, files, arts, tmp>>

\* edit_save: _save_registry
RenameRemoteRegistry ==
    /\ pc = "ren_rreg"
    /\ rreg' = Put(Del(rreg, key), normalize_name(mem.new_name),
                   [rreg[key] EXCEPT !.name = mem.new_name,
                                     !.id_name = normalize_name(mem.new_name)])
    /\ Goto("done")
    /\ UNCHANGED <<Fixed, now, lreg, files, arts, tmp>>

----------------------------------------------------------------------------
(* pyCloudSave.py: sync --all *)

\* the orders a dict of these keys can be iterated in
Orders(S) == {q \in [1..Cardinality(S) -> S] : {q[i] : i \in DOMAIN q} = S}

\* what _sync reads for a key inside the loop: last_modification is the one
\* Local() computed when the process started
LoadedInLoop(id_name, lmods, todo) ==
    [NoMem EXCEPT !.lmod = lmods[id_name],
                  !.lsync = lreg[id_name].last_sync,
                  !.rup = RemoteLastUpload(id_name),
                  !.had_remote = id_name \in DOMAIN rreg,
                  !.lmods = lmods,
                  !.todo = todo]

\* parse_args and command_sync with --all; named: a name was given as well
SyncAll(named) ==
    /\ pc = "idle"
    /\ IF ~named
       THEN Begin("sync_all", <<>>, NoMem, "none", "done", "parse_args")
       ELSE IF DOMAIN lreg = {}
       THEN Begin("sync_all", <<>>, NoMem, "none", "done", "ok")
       ELSE \E order \in Orders(DOMAIN lreg) :
              LET id_name == Head(order)
                  lmods == [k \in DOMAIN lreg |-> GetLastModTime(lreg[k])]
                  m == LoadedInLoop(id_name, lmods, Tail(order))
                  d == SyncDecision(m.lmod, m.lsync, m.rup)
              IN  IF ~RegistryLoads
                  THEN Begin("sync_all", id_name, [NoMem EXCEPT !.todo = Tail(order)],
                             "none", "done", "get_registry")
                  ELSE Begin("sync_all", id_name, m, d,
                             After(SyncTarget(d), m.todo), "ok")
    /\ UNCHANGED <<Fixed, now, Persisted>>

\* command_sync: the loop calls _sync for the next key
SyncNext ==
    /\ pc = "sync_next"
    /\ LET id_name == Head(mem.todo)
           m == [LoadedInLoop(id_name, mem.lmods, Tail(mem.todo))
                     EXCEPT !.touched = mem.touched]
           d == SyncDecision(m.lmod, m.lsync, m.rup)
       IN  /\ key' = id_name
           /\ mem' = m
           /\ decision' = d
           /\ pc' = After(SyncTarget(d), m.todo)
           /\ result' = "ok"
    /\ UNCHANGED <<Fixed, now, Persisted, cmd, start, prev>>

----------------------------------------------------------------------------
(* pyCloudSave.py: the commands that look a save up by name *)

\* edit that inserts the entry under the new key and keeps the old one
Mut_EditName(id_name, new_name) ==
    Put(lreg, normalize_name(new_name),
        [lreg[id_name] EXCEPT !.name = new_name, !.id_name = normalize_name(new_name)])

\* edit that enters the renamed save as track enters a new one
Mut_EditNameFresh(id_name, new_name) ==
    LET new_id_name == normalize_name(new_name)
        save == [lreg[id_name] EXCEPT !.name = new_name, !.id_name = new_id_name,
                                      !.last_sync = None]
    IN  IF new_id_name # id_name
        THEN Put(Del(lreg, id_name), new_id_name, save)
        ELSE Put(lreg, id_name, save)

\* Local.edit(save_name, new_name) followed by _save_registry
EditName(id_name, new_name) ==
    LET new_id_name == normalize_name(new_name)
        save == [lreg[id_name] EXCEPT !.name = new_name, !.id_name = new_id_name]
    IN  IF new_id_name # id_name
        THEN Put(Del(lreg, id_name), new_id_name, save)
        ELSE Put(lreg, id_name, save)

\* Application.command_edit with --new_name; yes: the answer to the prompt
CommandEdit(name, new_name, yes) ==
    /\ pc = "idle"
    /\ LET results == normalized_search(DOMAIN lreg, name)
           m == [NoMem EXCEPT !.name = name, !.new_name = new_name, !.yes = yes]
       IN  IF Cardinality(results) # 1
           THEN /\ Begin("edit", <<>>, m, "none", "done", "find_save")
                /\ UNCHANGED lreg
           ELSE LET id_name == CHOOSE k \in results : TRUE
                IN  IF ~RegistryLoads
                    THEN /\ Begin("edit", id_name, m, "none", "done", "get_registry")
                         /\ UNCHANGED lreg
                    ELSE /\ lreg' = EditName(id_name, new_name)
                         /\ Begin("edit", id_name,
                                  [m EXCEPT !.had_remote = id_name \in DOMAIN rreg],
                                  "none",
                                  IF id_name \in DOMAIN rreg /\ yes
                                  THEN IF normalize_name(new_name) # id_name
                                       THEN "ren_file" ELSE "ren_rreg"
                                  ELSE "done",
                                  "ok")
    /\ UNCHANGED <<Fixed, now, files, rreg, arts, tmp>>

\* untrack that empties the registry
Mut_CommandUntrack(name) ==
    /\ pc = "idle"
    /\ LET results == normalized_search(DOMAIN lreg, name)
           m == [NoMem EXCEPT !.name = name]
       IN  IF Cardinality(results) # 1
           THEN /\ Begin("untrack", <<>>, m, "none", "done", "find_save")
                /\ UNCHANGED lreg
           ELSE LET id_name == CHOOSE k \in results : TRUE
                IN  /\ Begin("untrack", id_name, m, "none", "done", "ok")
                    /\ lreg' = EmptyMap
    /\ UNCHANGED <<Fixed, now, files, rreg, arts, tmp>>

\* Application.command_untrack: find_save, then Local.untrack
CommandUntrack(name) ==
    /\ pc = "idle"
    /\ LET results == normalized_search(DOMAIN lreg, name)
           m == [NoMem EXCEPT !.name = name]
       IN  IF Cardinality(results) # 1
           THEN /\ Begin("untrack", <<>>, m, "none", "done", "find_save")
                /\ UNCHANGED lreg
           ELSE LET id_name == CHOOSE k \in results : TRUE
                IN  /\ Begin("untrack", id_name, m, "none", "done", "ok")
                    /\ lreg' = Del(lreg, id_name)
    /\ UNCHANGED <<Fixed, now, files, rreg, arts, tmp>>

\* a copy that takes the hint whatever the argument is
Mut_Hinted(arg, hint) == hint

\* command_copy: the hint of the remote entry unless the argument is given
Hinted(arg, hint) == IF arg = {} THEN hint ELSE CHOOSE x \in arg : TRUE

\* Application.command_copy: remote.find_save, then Local.track
CommandCopy(name, args) ==
    /\ pc = "idle"
    /\ LET results == normalized_search(DOMAIN rreg, name)
           m == [NoMem EXCEPT !.name = name, !.args = args]
       IN  IF ~RegistryLoads
           THEN /\ Begin("copy", <<>>, m, "none", "done", "get_registry")
                /\ UNCHANGED lreg
           ELSE IF Cardinality(results) # 1
           THEN /\ Begin("copy", <<>>, m, "none", "done", "find_save")
                /\ UNCHANGED lreg
           ELSE LET remote_save == rreg[CHOOSE k \in results : TRUE]
                    id_name == normalize_name(remote_save.name)
                IN  IF id_name \in DOMAIN lreg
                    THEN /\ Begin("copy", id_name, m, "none", "done", "track")
                         /\ UNCHANGED lreg
                    ELSE /\ Begin("copy", id_name, m, "none", "done", "ok")
                         /\ lreg' = Put(lreg, id_name,
                                TrackedSave(remote_save.name,
                                            Hinted(args.root, remote_save.root_hint),
                                            Hinted(args.filters, remote_save.filters_hint),
                                            Hinted(args.version, remote_save.version)))
    /\ UNCHANGED <<Fixed, now, files, rreg, arts, tmp>>

\* FilebasedRemote.register_new_save called on the store by itself
RegisterCall(name, root_hint, filters_hint, version) ==
    /\ pc = "idle"
    /\ LET id_name == normalize_name(name)
       IN  IF ~RegistryLoads
           THEN /\ Begin("register", id_name, NoMem, "none", "done", "get_registry")
                /\ UNCHANGED rreg
           ELSE /\ rreg' = RegisterNewSave(name, root_hint, filters_hint, version)
                /\ Begin("register", id_name,
                         [NoMem EXCEPT !.had_remote = id_name \in DOMAIN rreg],
                         "none", "done", "ok")
    /\ UNCHANGED <<Fixed, now, lreg, files, arts, tmp>>

\* the exception a failed command ends with
ExceptionOf(res) ==
    CASE res = "find_save" -> "AppError"
      [] res \in {"track", "ld_file"} -> "KeyError"
      [] res = "load_registry" -> "ValueError"
      [] res = "get_registry" ->
            IF doc_version.remote # REMOTE_REGISTRY_VERSION THEN "ValueError"
            ELSE "TypeError"
      [] res = "parse_args" -> "IndexError"
      [] OTHER -> "Exception"

\* parse_args: except AppError
Caught(exception) == exception = "AppError"

----------------------------------------------------------------------------
(* The end of an invocation *)

Steps == {"up_register", "up_pack", "up_file", "up_rreg", "up_lreg", "up_unlink",
          "ld_file", "ld_unpack", "ld_lreg", "ld_unlink",
          "del_file", "del_rreg", "ren_file", "ren_rreg", "sync_next"}

\* the step the invocation is at fails (its call raises) or the process is
\* killed before it: nothing catches the exception, the invocation ends
Abort ==
    /\ pc \in Steps
    /\ pc' = "done"
    /\ result' = pc
    /\ UNCHANGED <<Fixed, now, Persisted, cmd, key, mem, decision, start, prev>>

\* the process exits
Exit ==
    /\ pc = "done"
    /\ pc' = "idle"
    /\ cmd' = "none"
    /\ key' = <<>>
    /\ mem' = NoMem
    /\ decision' = "none"
    /\ result' = "none"
    /\ start' = NoStart
    /\ prev' = IF /\ cmd = "sync"
                   /\ ~mem.touched
                   /\ decision \in {"upload", "download"}
                   /\ result \in {"ok", "up_lreg", "ld_lreg"}
                THEN [key |-> key, decision |-> decision, result |-> result]
                ELSE NoPrev
    /\ UNCHANGED <<Fixed, now, Persisted>>

Next ==
    \/ Tick
    \/ \E r \in Roots, f \in FileNames, d \in Data : WriteFile(r, f, d)
    \/ \E r \in Roots, f \in FileNames : RemoveFile(r, f)
    \/ \E n \in TrackNames, r \in Roots, fe \in FilterExprs, v \in Versions : Track(n, r, fe, v)
    \/ \E k \in Keys : Untrack(k)
    \/ \E k \in Keys : Sync(k)
    \/ \E k \in Keys, yes \in BOOLEAN : CommandUpload(k, yes)
    \/ \E k \in Keys, yes \in BOOLEAN : CommandLoad(k, yes)
    \/ UploadRegister
    \/ UploadPack
    \/ UploadFile
    \/ UploadRemoteRegistry
    \/ UploadLocalRegistry
    \/ UploadUnlink
    \/ LoadFile
    \/ LoadUnpack
    \/ LoadLocalRegistry
    \/ LoadUnlink
    \/ \E k \in Keys : RemoteDelete(k)
    \/ DeleteFile
    \/ DeleteRemoteRegistry
    \/ \E k \in Keys, n \in Names : RemoteEdit(k, n)
    \/ RenameFile
    \/ RenameRemoteRegistry
    \/ Abort
    \/ Exit

Spec == Init /\ [][Next]_vars

----------------------------------------------------------------------------
(* Two saves: an installation where one game has written its files and    *)
(* the other has not yet, and the commands that work on the whole         *)
(* registry or look a save up by name.  The clock stands still: what is   *)
(* checked here does not compare times across invocations.                *)

AllRoots == Roots \cup {"r2"}

\* what the user types to name a save
SearchNames == Names \cup {<<"!">>}

\* each game keeps its files in its own folder
TrackInputs == {<<<<"A">>, "r1">>, <<<<"B">>, "r2">>}

InitAll ==
    /\ now = 1
    /\ lreg = EmptyMap
    /\ files = [r \in AllRoots |->
                 IF r \in Roots
                 THEN [f \in FileNames |-> [mtime |-> 1, data |-> "d1"]]
                 ELSE EmptyMap]
    /\ rreg = EmptyMap
    /\ arts = EmptyMap
    /\ tmp = EmptyMap
    /\ pc = "idle"
    /\ cmd = "none"
    /\ key = <<>>
    /\ mem = NoMem
    /\ decision = "none"
    /\ result = "none"
    /\ start = NoStart
    /\ prev = NoPrev
    /\ doc_version = Supported
    /\ input = NoInput
    /\ output = NoOutput
    /\ other = NoOther

NextAll ==
    \/ \E i \in TrackInputs, fe \in FilterExprs, v \in Versions : Track(i[1], i[2], fe, v)
    \/ \E n \in SearchNames : CommandUntrack(n)
    \/ \E n \in SearchNames, new \in Names, yes \in BOOLEAN : CommandEdit(n, new, yes)
    \/ \E named \in BOOLEAN : SyncAll(named)
    \/ SyncNext
    \/ UploadRegister
    \/ UploadPack
    \/ UploadFile
    \/ UploadRemoteRegistry
    \/ UploadLocalRegistry
    \/ UploadUnlink
    \/ LoadFile
    \/ LoadUnpack
    \/ LoadLocalRegistry
    \/ LoadUnlink
    \/ RenameFile
    \/ RenameRemoteRegistry
    \/ Abort
    \/ Exit

SpecAll == InitAll /\ [][NextAll]_vars

----------------------------------------------------------------------------
(* The remote store used by itself and through upload, rename and delete *)

NextStore ==
    \/ \E n \in Names, r \in Roots, fe \in FilterExprs, v \in Versions :
          RegisterCall(n, r, fe, v)
    \/ \E n \in TrackNames, r \in Roots, fe \in FilterExprs, v \in Versions : Track(n, r, fe, v)
    \/ \E k \in Keys, yes \in BOOLEAN : CommandUpload(k, yes)
    \/ UploadRegister
    \/ UploadPack
    \/ UploadFile
    \/ UploadRemoteRegistry
    \/ UploadLocalRegistry
    \/ UploadUnlink
    \/ \E k \in Keys : RemoteDelete(k)
    \/ DeleteFile
    \/ DeleteRemoteRegistry
    \/ \E k \in Keys, n \in Names : RemoteEdit(k, n)
    \/ RenameFile
    \/ RenameRemoteRegistry
    \/ Abort
    \/ Exit

SpecStore == InitAll /\ [][NextStore]_vars

----------------------------------------------------------------------------
(* Registry documents of any version, and every command on the registries *)

\* the version tags a document found on disk or in the store may carry
DocVersions == {"1.0", "0.9"}

InitReg ==
    /\ now = 1
    /\ lreg = EmptyMap
    /\ files = [r \in AllRoots |->
                 IF r \in Roots
                 THEN [f \in FileNames |-> [mtime |-> 1, data |-> "d1"]]
                 ELSE EmptyMap]
    /\ rreg = EmptyMap
    /\ arts = EmptyMap
    /\ tmp = EmptyMap
    /\ pc = "idle"
    /\ cmd = "none"
    /\ key = <<>>
    /\ mem = NoMem
    /\ decision = "none"
    /\ result = "none"
    /\ start = NoStart
    /\ prev = NoPrev
    /\ doc_version \in [local : DocVersions, remote : DocVersions]
    /\ input = NoInput
    /\ output = NoOutput
    /\ other = NoOther

\* every command runs after Local() has loaded the local registry
NextReg ==
    \/ LoadRegistryFails
    \/ /\ pc = "idle" => LocalLoads
       /\ \/ NextStore
          \/ \E n \in SearchNames : CommandUntrack(n)
          \/ \E n \in SearchNames, new \in Names, yes \in BOOLEAN : CommandEdit(n, new, yes)

SpecReg == InitReg /\ [][NextReg]_vars

----------------------------------------------------------------------------
(* One save over time: it is tracked, written to, synchronised, uploaded,  *)
(* loaded and renamed while the clock advances.                               *)

NextTime ==
    \/ Tick
    \/ \E r \in Roots, f \in FileNames, d \in Data : WriteFile(r, f, d)
    \/ \E n \in TrackNames, r \in Roots, fe \in FilterExprs, v \in Versions : Track(n, r, fe, v)
    \/ \E n \in SearchNames, new \in Names, yes \in BOOLEAN : CommandEdit(n, new, yes)
    \/ \E k \in Keys : Sync(k)
    \/ \E k \in Keys, yes \in BOOLEAN : CommandUpload(k, yes)
    \/ \E k \in Keys, yes \in BOOLEAN : CommandLoad(k, yes)
    \/ UploadRegister
    \/ UploadPack
    \/ UploadFile
    \/ UploadRemoteRegistry
    \/ UploadLocalRegistry
    \/ UploadUnlink
    \/ LoadFile
    \/ LoadUnpack
    \/ LoadLocalRegistry
    \/ LoadUnlink
    \/ RenameFile
    \/ RenameRemoteRegistry
    \/ Exit

SpecTime == Init /\ [][NextTime]_vars

----------------------------------------------------------------------------
(* Two machines share the remote and the clock. Each has its own local     *)
(* registry, file system and temp folder; commands run one at a time, each *)
(* to its end, on either machine.                                          *)

\* the next command is run on the other machine: Application() there loads
\* that machine's registry and works in that machine's folders
Switch ==
    /\ pc = "idle"
    /\ other' = [id |-> 3 - other.id, lreg |-> lreg, files |-> files, tmp |-> tmp]
    /\ lreg' = other.lreg
    /\ files' = other.files
    /\ tmp' = other.tmp
    /\ prev' = NoPrev
    /\ UNCHANGED <<doc_version, input, output, now, rreg, arts, InMemory>>

NextTwo ==
    \/ Tick
    \/ Switch
    \/ \E r \in Roots, f \in FileNames, d \in Data : WriteFile(r, f, d)
    \/ \E n \in TrackNames, r \in Roots, fe \in FilterExprs, v \in Versions : Track(n, r, fe, v)
    \/ \E k \in Keys : Sync(k)
    \/ \E k \in Keys, yes \in BOOLEAN : CommandUpload(k, yes)
    \/ \E k \in Keys, yes \in BOOLEAN : CommandLoad(k, yes)
    \/ UploadRegister
    \/ UploadPack
    \/ UploadFile
    \/ UploadRemoteRegistry
    \/ UploadLocalRegistry
    \/ UploadUnlink
    \/ LoadFile
    \/ LoadUnpack
    \/ LoadLocalRegistry
    \/ LoadUnlink
    \/ Exit

SpecTwo == Init /\ [][NextTwo]_vars

----------------------------------------------------------------------------
(* A second machine: the remote holds saves another machine uploaded, the  *)
(* local registry is empty, and the user adopts them with track --copy.    *)

\* the versions of a game
AllVersions == Versions \cup {"v2"}

\* what track --copy is given besides the name
CopyArgs == [root : Opt({"r2"}), filters : Opt(FilterExprs), version : Opt({"v2"})]

\* the entry and the artifact upload_save leaves for a save
Uploaded(name, root_hint, version) ==
    UploadedSave(RegisteredSave(name, root_hint, <<>>, version), 1,
                 [f \in FileNames |-> "d1"])

\* the remote registries other machines may have left
RemoteRegistries ==
    UNION {{[k \in {normalize_name(n) : n \in S} |->
                LET n == CHOOSE x \in S : normalize_name(x) = k
                IN  Uploaded(n, h[n][1], h[n][2])] :
            h \in [S -> AllRoots \X AllVersions]} : S \in SUBSET Names}

InitCopy ==
    /\ now = 1
    /\ lreg = EmptyMap
    /\ files = [r \in AllRoots |-> EmptyMap]
    /\ rreg \in RemoteRegistries
    /\ arts = [k \in DOMAIN rreg |-> [f \in FileNames |-> "d1"]]
    /\ tmp = EmptyMap
    /\ pc = "idle"
    /\ cmd = "none"
    /\ key = <<>>
    /\ mem = NoMem
    /\ decision = "none"
    /\ result = "none"
    /\ start = NoStart
    /\ prev = NoPrev
    /\ doc_version = Supported
    /\ input = NoInput
    /\ output = NoOutput
    /\ other = NoOther

NextCopy ==
    \/ \E n \in SearchNames, args \in CopyArgs : CommandCopy(n, args)
    \/ \E i \in TrackInputs, fe \in FilterExprs, v \in Versions : Track(i[1], i[2], fe, v)
    \/ \E n \in SearchNames : CommandUntrack(n)
    \/ Exit

SpecCopy == InitCopy /\ [][NextCopy]_vars

----------------------------------------------------------------------------
(* The functions by themselves: an argument is drawn, the function is      *)
(* applied to it, and what it returned is kept.                            *)

MaxNameLen == 3

\* the strings over chars of at most n characters
Strings(chars, n) == UNION {[1..k -> chars] : k \in 0..n}

\* a name as the user types it: letters of both cases, blanks, underscores
\* and punctuation
NameChars == {"A", "a", " ", "_", "'"}
NameStrings == Strings(NameChars, MaxNameLen)

NormalizeInputs == {[fn |-> "normalize", name |-> n] : n \in NameStrings}

\* the keys of a registry that is searched
SearchKeys == {<<"a">>, <<"a", "a">>, <<"a", "_", "a">>, <<"a", "a", "a">>}

SearchInputs ==
    {[fn |-> "search", keys |-> ks, query |-> q] : ks \in SUBSET SearchKeys, q \in NameStrings}

\* the relative paths of the files under a root
TreeNames == {<<"1", "d">>, <<"2", "d">>, <<"2", "t">>, <<"x", "/", "2", "d">>}

\* the globs of a filter expression, and the tokens made of them
Globs == {<<"*">>, <<"*", "d">>, <<"*", "1", "*">>, <<"2", "*">>, <<"2", "d">>,
          <<"x", "/", "*">>, <<"x", "\\", "*">>}
Tokens == [neg : BOOLEAN, glob : Globs]
TokenLists == {<<>>} \cup {<<t>> : t \in Tokens} \cup {<<t, u>> : t \in Tokens, u \in Tokens}

\* a filter expression as the user writes it: the tokens with a comma and
\* blanks between them
Written(t) == IF t.neg THEN <<"!">> \o t.glob ELSE t.glob
Commas == {<<",">>, <<",", " ">>, <<" ", ",", " ">>}
Expressions(tokens) ==
    IF tokens = <<>> THEN {<<>>}
    ELSE IF Len(tokens) = 1 THEN {Written(tokens[1])}
    ELSE {Written(tokens[1]) \o c \o Written(tokens[2]) : c \in Commas}

SelectInputs ==
    {[fn |-> "select", tokens |-> ts, save |-> [root |-> "r1", filters |-> e]] :
        <<ts, e>> \in UNION {{<<l, x>> : x \in Expressions(l)} : l \in TokenLists}}

\* the trees of regular files the selector may find under r1
SelectTrees ==
    {[r \in AllRoots |->
        IF r = "r1" THEN [f \in S |-> [mtime |-> 1, data |-> "d1"]] ELSE EmptyMap] :
     S \in SUBSET TreeNames}

NoFiles == [r \in AllRoots |-> EmptyMap]

\* a save to pack, and the save of the same game on another machine, whose
\* root is empty, to unpack into
PackFilters == {<<>>, <<"*", "d">>, <<"!", "x", "/", "*">>}
PackInputs ==
    {[fn |-> "pack", save |-> [root |-> "r1", filters |-> e],
      target |-> [root |-> "r2", filters |-> e]] : e \in PackFilters}

\* the trees to pack: each file with its content, written at the epoch or
\* later
PackNames == {<<"2", "d">>, <<"2", "t">>, <<"x", "/", "2", "d">>}
PackTrees ==
    {[r \in AllRoots |-> IF r = "r1" THEN t ELSE EmptyMap] :
        t \in UNION {[S -> [mtime : 0..1, data : Data]] : S \in SUBSET PackNames}}

\* a local registry to edit: the save A, with or without filters and a last
\* sync, and with or without the save A2 beside it
EditRegistries ==
    {[k \in {<<"a">>} \cup others |->
        IF k = <<"a">>
        THEN [TrackedSave(<<"A">>, "r1", fe, "v1") EXCEPT !.last_sync = ls]
        ELSE TrackedSave(<<"A", "2">>, "r2", <<>>, "v1")] :
     fe \in {<<>>, <<"*", "d">>}, ls \in {None, 1}, others \in {{}, {<<"a", "2">>}}}

\* what edit is given: each field or nothing, and for the filters the
\* empty expression as well
EditArgs ==
    [new_name : Opt({<<"B">>}), root : Opt({"r2"}),
     filters : Opt({<<"*">>, <<>>}), version : Opt({"v2"}), last_sync : Opt({2})]

EditInputs ==
    {[fn |-> "edit", registry |-> reg, save_name |-> <<"a">>, args |-> a] :
        reg \in EditRegistries, a \in EditArgs}

\* a save whose last modification is asked for; no folder r0 exists
ModInputs ==
    {[fn |-> "last_mod", save |-> [root |-> r, filters |-> e]] :
        r \in {"r1", "r0"}, e \in {<<>>, <<"*", "d">>}}

\* the trees under r1: each file stamped at the epoch (0) or later
ModNames == {<<"2", "d">>, <<"2", "t">>}
ModTrees ==
    {[r \in AllRoots |-> IF r = "r1" THEN t ELSE EmptyMap] :
        t \in UNION {[S -> [mtime : 0..MaxTime, data : {"d1"}]] : S \in SUBSET ModNames}}

RegistryFor(i) == IF i.fn = "edit" THEN i.registry ELSE EmptyMap

TreesFor(i) ==
    IF i.fn = "select" THEN SelectTrees
    ELSE IF i.fn = "pack" THEN PackTrees
    ELSE IF i.fn = "last_mod" THEN ModTrees
    ELSE {NoFiles}

FnInputs ==
    NormalizeInputs \cup SearchInputs \cup SelectInputs \cup PackInputs \cup EditInputs
        \cup ModInputs

InitFn ==
    /\ now = 1
    /\ input \in FnInputs
    /\ lreg = RegistryFor(input)
    /\ files \in TreesFor(input)
    /\ rreg = EmptyMap
    /\ arts = EmptyMap
    /\ tmp = EmptyMap
    /\ pc = "idle"
    /\ cmd = "none"
    /\ key = <<>>
    /\ mem = NoMem
    /\ decision = "none"
    /\ result = "none"
    /\ start = NoStart
    /\ prev = NoPrev
    /\ doc_version = Supported
    /\ output = NoOutput
    /\ other = NoOther

\* what a call leaves alone
Pure == <<now, lreg, files, rreg, arts, tmp, pc, cmd, key, mem, decision, result, start,
          prev, doc_version, input, other>>

\* normalize_name(name)
Normalize ==
    /\ input.fn = "normalize"
    /\ output = NoOutput
    /\ output' = [fn |-> "normalize", value |-> normalize_name(input.name)]
    /\ UNCHANGED Pure

\* normalized_search(keys, query) and find_save(query) on a registry with
\* these keys
Search ==
    /\ input.fn = "search"
    /\ output = NoOutput
    /\ output' = [fn |-> "search",
                  results |-> normalized_search(input.keys, input.query),
                  found |-> find_save(input.keys, input.query)]
    /\ UNCHANGED Pure

\* Local._get_save_files(save)
Select ==
    /\ input.fn = "select"
    /\ output = NoOutput
    /\ output' = [fn |-> "select", selected |-> GetSaveFiles(input.save)]
    /\ UNCHANGED Pure

\* Local.pack_save_files(save, tmp_file), then unpack_save_files(target,
\* tmp_file) where the target's root is empty
PackUnpack ==
    /\ input.fn = "pack"
    /\ output = NoOutput
    /\ IF PackFails(input.save)
       THEN /\ output' = [fn |-> "pack", error |-> "ValueError"]
            /\ UNCHANGED files
       ELSE /\ output' = [fn |-> "pack", error |-> "none"]
            /\ files' = UnpackSaveFiles(input.target, PackSaveFiles(input.save))
    /\ UNCHANGED <<now, lreg, rreg, arts, tmp, pc, cmd, key, mem, decision, result, start,
                   prev, doc_version, input, other>>

\* Local.edit(save_name, ...) followed by _save_registry
LocalEdit ==
    /\ input.fn = "edit"
    /\ output = NoOutput
    /\ lreg' = Edit(lreg, input.save_name, input.args)
    /\ output' = [fn |-> "edit"]
    /\ UNCHANGED <<now, files, rreg, arts, tmp, pc, cmd, key, mem, decision, result, start,
                   prev, doc_version, input, other>>

\* Local._get_last_mod_time(save)
LastMod ==
    /\ input.fn = "last_mod"
    /\ output = NoOutput
    /\ output' = [fn |-> "last_mod", value |-> GetLastModTime(input.save)]
    /\ UNCHANGED Pure

NextFn ==
    \/ Normalize
    \/ Search
    \/ Select
    \/ PackUnpack
    \/ LocalEdit
    \/ LastMod

SpecFn == InitFn /\ [][NextFn]_vars

----------------------------------------------------------------------------
(* Properties *)

UploadSteps == {"up_register", "up_pack", "up_file", "up_rreg", "up_lreg", "up_unlink"}
LoadSteps == {"ld_file", "ld_unpack", "ld_lreg", "ld_unlink"}

\* a is later than b, a null time being the minimum
Newer(a, b) == a # None /\ (b = None \/ a > b)

\* the decision table of the reconciler
TableAction(lmod, lsync, rup) ==
    CASE ~Newer(rup, lsync) /\ ~Newer(lmod, lsync) -> "noop"
      [] ~Newer(rup, lsync) /\ Newer(lmod, lsync) -> "upload"
      [] Newer(rup, lsync) /\ ~Newer(lmod, lsync) -> "download"
      [] Newer(rup, lsync) /\ Newer(lmod, lsync) -> "conflict"

\* _sync ran and reached its decision (both registries were read)
SyncDecided == cmd = "sync" /\ result # "get_registry"

\* last_upload of the key in the remote registry the invocation read
StartRemoteUpload ==
    IF key \in DOMAIN start.rreg THEN start.rreg[key].last_upload ELSE None

\* C1: for every combination of local_last_modification, local_last_sync and
\* remote_last_upload, each possibly null, _sync takes exactly the action of
\* the decision table: nothing when neither side is newer than the last
\* sync, upload when only the local files are, download when only the remote
\* is, conflict (and nothing else) when both are.
C1_SyncFollowsDecisionTable ==
    SyncDecided =>
        LET a == TableAction(mem.lmod, start.lreg[key].last_sync, StartRemoteUpload)
        IN  /\ decision = a
            /\ a \in {"noop", "conflict"} => pc = "done" /\ result = "ok"
            /\ a = "upload" => pc \in UploadSteps \cup {"done"}
            /\ a = "download" => pc \in LoadSteps \cup {"done"}

\* _sync found all three timestamps equal and did nothing
C1_Witness ==
    /\ SyncDecided
    /\ decision = "noop"
    /\ mem.lsync # None
    /\ mem.lmod = mem.lsync
    /\ mem.rup = mem.lsync

\* C2: an invocation of _sync that detects a conflict ends there and changes
\* neither the local registry, the remote registry, the remote artifacts,
\* the local files nor the temp folder.
C2_ConflictPerformsNoIO ==
    [][decision' = "conflict" =>
          /\ pc' = "done"
          /\ UNCHANGED <<lreg, files, rreg, arts, tmp>>]_vars

\* _sync reported a conflict
C2_Witness ==
    /\ SyncDecided
    /\ decision = "conflict"
    /\ pc = "done"
    /\ mem.lsync # None

\* C3: a save was uploaded (last_sync equals last_upload, the artifact holds
\* its files) and its local files were deleted since: _sync downloads them.
C3_SyncRestoresDeletedFiles ==
    ( /\ SyncDecided
      /\ mem.lsync # None
      /\ mem.rup = mem.lsync
      /\ mem.lmod = None
      /\ key \in DOMAIN arts
      /\ DOMAIN arts[key] # {} )
    => decision = "download"

\* _upload ran to its end
UploadCompleted ==
    /\ cmd \in {"sync", "upload"}
    /\ pc = "done"
    /\ result = "ok"
    /\ mem.stamp # None

\* C4: when _upload has completed, the remote entry's last_upload and the
\* local entry's last_sync are the timestamp taken for this upload, the
\* remote entry and the artifact of the key exist, and an entry registered
\* by this upload carries the local name, root, filters and version.
C4_UploadStampsBothRegistries ==
    UploadCompleted =>
        /\ key \in DOMAIN rreg
        /\ key \in DOMAIN arts
        /\ rreg[key].last_upload = mem.stamp
        /\ lreg[key].last_sync = mem.stamp
        /\ ~mem.had_remote =>
              /\ rreg[key].name = lreg[key].name
              /\ rreg[key].root_hint = lreg[key].root
              /\ rreg[key].filters_hint = lreg[key].filters
              /\ rreg[key].version = lreg[key].version

\* a first upload of a key has completed
C4_Witness == UploadCompleted /\ ~mem.had_remote

\* C5: the previous invocation was a sync whose upload stopped after
\* upload_save had persisted last_upload and before last_sync was stamped:
\* this sync decides to upload again.
C5_CrashedUploadIsRetried ==
    ( /\ SyncDecided
      /\ prev.key = key
      /\ prev.decision = "upload"
      /\ prev.result = "up_lreg" )
    => decision = "upload"

\* C6: the previous invocation was a sync whose download stopped after the
\* archive was unpacked and before last_sync was stamped: this sync decides
\* to download again.
C6_CrashedDownloadIsRepeated ==
    ( /\ SyncDecided
      /\ prev.key = key
      /\ prev.decision = "download"
      /\ prev.result = "ld_lreg" )
    => decision = "download"

\* every remote entry that was uploaded has its artifact
EntryHasArtifact ==
    \A k \in DOMAIN rreg : rreg[k].last_upload # None => k \in DOMAIN arts

\* C7: between invocations, whatever failed or was killed before, every
\* remote entry with a last_upload has its artifact.
C7_UploadedEntryAlwaysHasArtifact == pc = "idle" => EntryHasArtifact

\* delete_save returned
DeleteCompleted == cmd = "delete" /\ pc = "done" /\ result = "ok"

\* C8: after a successful delete_save the remote registry has no entry and
\* the remote no artifact for the key; load_save of a key that has no
\* artifact fails as not found and writes no output file.
C8_DeletedSaveCannotBeLoaded ==
    /\ [](DeleteCompleted => key \notin DOMAIN rreg /\ key \notin DOMAIN arts)
    /\ [][(pc = "ld_file" /\ key \notin DOMAIN arts) =>
             /\ pc' = "done"
             /\ result' = "ld_file"
             /\ UNCHANGED <<lreg, files, rreg, arts, tmp>>]_vars

\* an uploaded save was deleted from the remote
C8_Witness ==
    /\ DeleteCompleted
    /\ start.rreg[key].last_upload # None

\* C9: at no point of delete_save, and in no state a failure or a kill
\* leaves behind, has the persisted registry lost the entry while the
\* artifact is still stored.
C9_ArtifactDeletedBeforeRegistry ==
    (cmd = "delete" /\ result # "get_registry") =>
        ~(key \notin DOMAIN rreg /\ key \in DOMAIN arts)

\* delete_save was stopped between deleting the artifact and the commit
C9_Witness ==
    /\ cmd = "delete"
    /\ pc = "done"
    /\ result = "del_rreg"
    /\ key \in DOMAIN rreg
    /\ key \notin DOMAIN arts

\* C10: when packing or the artifact upload of _upload fails, both persisted
\* registries are what they were when the operation started.
C10_FailedUploadLeavesRegistries ==
    ( /\ cmd \in {"sync", "upload"}
      /\ pc = "done"
      /\ result \in {"up_pack", "up_file"} )
    => (lreg = start.lreg /\ rreg = start.rreg)

\* the commands that read the remote registry
RemoteCommands == {"sync", "upload", "load", "delete", "remote_edit"}

\* C11: when the persisted remote registry holds an entry whose last_upload
\* is null, a later invocation that reads the remote registry loads it:
\* get_registry does not fail.
C11_NullLastUploadIsLoaded ==
    ( /\ cmd \in RemoteCommands
      /\ \E k \in DOMAIN start.rreg : start.rreg[k].last_upload = None )
    => result # "get_registry"

\* C12: once an upload or a download has ended, with success or with a
\* failure in pack, remote upload, remote load, unpack or the local stamp,
\* its temporary archive is not in the temp folder.
C12_TempArchiveRemoved ==
    ( /\ cmd \in {"sync", "upload", "load"}
      /\ pc = "done"
      /\ result \in {"ok", "up_pack", "up_file", "up_rreg", "up_lreg",
                     "ld_file", "ld_unpack", "ld_lreg"} )
    => key \notin DOMAIN tmp

\* C13: in sync --all every tracked key is reconciled: when the invocation
\* has ended, after a conflict on a key or after an upload or download of a
\* key failed, no key of the registry is left that _sync was not called for.
C13_SyncAllReconcilesEveryKey ==
    ( /\ cmd = "sync_all"
      /\ pc = "done"
      /\ result \in UploadSteps \cup LoadSteps \cup {"ok", "get_registry"} )
    => mem.todo = <<>>

\* edit gave the save a name with another key, and the command completed
EditRenamed ==
    /\ cmd = "edit"
    /\ pc = "done"
    /\ result = "ok"
    /\ normalize_name(mem.new_name) # key

\* C14 as stated: after a rename through edit the local entry, the remote
\* entry (if there was one) and the artifact are under the new key and
\* nothing is under the old key.
C14_RenameMovesBothRegistries ==
    EditRenamed =>
        LET new_id_name == normalize_name(mem.new_name)
        IN  /\ new_id_name \in DOMAIN lreg
            /\ key \notin DOMAIN lreg
            /\ mem.had_remote =>
                   /\ new_id_name \in DOMAIN rreg
                   /\ new_id_name \in DOMAIN arts
                   /\ key \notin DOMAIN rreg
                   /\ key \notin DOMAIN arts

\* C14, amended: after a rename through edit the local entry is under the
\* new key and not under the old one; the remote entry and the artifact move
\* to the new key when the user confirms the update of the remote, and the
\* remote registry is left as it was, entry under the old key, when the user
\* declines.
C14_RenameMovesRemoteWhenConfirmed ==
    EditRenamed =>
        LET new_id_name == normalize_name(mem.new_name)
        IN  /\ new_id_name \in DOMAIN lreg
            /\ lreg[new_id_name].name = mem.new_name
            /\ key \notin DOMAIN lreg
            /\ (mem.had_remote /\ mem.yes) =>
                   /\ new_id_name \in DOMAIN rreg
                   /\ rreg[new_id_name].name = mem.new_name
                   /\ new_id_name \in DOMAIN arts
                   /\ key \notin DOMAIN rreg
                   /\ key \notin DOMAIN arts
            /\ (mem.had_remote /\ ~mem.yes) =>
                   /\ rreg = start.rreg
                   /\ key \in DOMAIN rreg
            /\ ~mem.had_remote => rreg = start.rreg

\* a tracked and uploaded save was renamed, the remote update confirmed
C14_Witness == EditRenamed /\ mem.had_remote /\ mem.yes

\* C15: a local edit whose new name has the key of a different existing
\* entry fails and leaves both entries as they were.
C15_EditCollisionFails ==
    ( /\ cmd = "edit"
      /\ pc # "idle"
      /\ result \notin {"find_save", "get_registry"}
      /\ normalize_name(mem.new_name) # key
      /\ normalize_name(mem.new_name) \in DOMAIN start.lreg )
    => /\ result # "ok"
       /\ lreg = start.lreg

\* C16: track of a name whose key is in the local registry fails and leaves
\* the registry unchanged; otherwise it adds exactly one entry, under the key
\* of the name, with last_sync null, and leaves every other entry unchanged.
C16_TrackAddsOneEntryOrFails ==
    [][(pc = "idle" /\ cmd' = "track") =>
          IF key' \in DOMAIN lreg
          THEN /\ result' = "track"
               /\ lreg' = lreg
          ELSE /\ result' = "ok"
               /\ DOMAIN lreg' = DOMAIN lreg \cup {key'}
               /\ normalize_name(lreg'[key'].name) = key'
               /\ lreg'[key'].last_sync = None
               /\ \A k \in DOMAIN lreg : lreg'[k] = lreg[k]]_vars

\* track of a name that is tracked already failed, another save being tracked
C16_Witness ==
    /\ cmd = "track"
    /\ pc = "done"
    /\ result = "track"
    /\ Cardinality(DOMAIN lreg) = 2

\* C17: the not-found, already-exists and ambiguous conditions of a command
\* (track of a tracked name, load of a key without artifact, a search with
\* no or several matches) are caught by parse_args.
C17_ExpectedErrorsAreCaught ==
    ( /\ pc = "done"
      /\ \/ result \in {"track", "find_save"}
         \/ result = "ld_file" /\ key \notin DOMAIN arts )
    => Caught(ExceptionOf(result))

\* C18: register_new_save of a name whose key is in the remote registry
\* fails and leaves the entry (last_upload, size, hints) unchanged.
C18_RegisterExistingFails ==
    ( /\ cmd = "register"
      /\ pc = "done"
      /\ result # "get_registry"
      /\ key \in DOMAIN start.rreg )
    => /\ result # "ok"
       /\ rreg = start.rreg

\* C19: untrack of a key of the local registry removes exactly that entry,
\* untrack of a name nothing matches fails and leaves the registry unchanged;
\* in every case the other local entries, the remote registry, the
\* artifacts and the files are unchanged.
C19_UntrackRemovesOnlyLocalEntry ==
    [][(pc = "idle" /\ cmd' = "untrack") =>
          LET id_name == normalize_name(mem'.name)
          IN  /\ UNCHANGED <<files, rreg, arts, tmp>>
              /\ \A k \in DOMAIN lreg' : k \in DOMAIN lreg /\ lreg'[k] = lreg[k]
              /\ Cardinality(DOMAIN lreg \ DOMAIN lreg') <= 1
              /\ id_name \in DOMAIN lreg =>
                     /\ result' = "ok"
                     /\ DOMAIN lreg' = DOMAIN lreg \ {id_name}
              /\ normalized_search(DOMAIN lreg, mem'.name) = {} =>
                     /\ result' = "find_save"
                     /\ lreg' = lreg]_vars

\* a save that has a remote entry and an artifact was untracked, another
\* save staying tracked
C19_Witness ==
    /\ cmd = "untrack"
    /\ pc = "done"
    /\ result = "ok"
    /\ key \in DOMAIN rreg
    /\ key \in DOMAIN arts
    /\ DOMAIN lreg # {}

\* C20: a load of a tracked save whose key has no entry or no artifact in
\* the remote ends as "not present in remote" and leaves the local registry,
\* last_sync included, as it was.
C20_LoadOfAbsentIsNotPresent ==
    ( /\ cmd = "load"
      /\ pc = "done"
      /\ result # "declined"
      /\ key \notin DOMAIN start.rreg \/ key \notin DOMAIN arts )
    => /\ result \in {"not_present", "ld_file"}
       /\ lreg = start.lreg

\* the commands that never call the remote
LocalCommands == {"track", "untrack"}

\* C21: a registry document whose version tag is not the supported one is
\* fatal to the invocation that loads it, and the invocation leaves it as it
\* is.  With such a local document every command ends while the application
\* is constructed and nothing persisted changes.  With such a remote document
\* no step changes the remote registry or an artifact, no transfer starts,
\* and a command that gets as far as the remote ends in get_registry.
C21_UnsupportedVersionIsFatal ==
    [][/\ doc_version' = doc_version
       /\ ~LocalLoads =>
             /\ UNCHANGED Persisted
             /\ pc = "idle" => pc' = "done" /\ result' = "load_registry"
       /\ doc_version.remote # REMOTE_REGISTRY_VERSION =>
             /\ UNCHANGED <<rreg, arts, tmp>>
             /\ pc' \notin Steps
             /\ (pc = "idle" /\ pc' # "idle" /\ cmd' \notin LocalCommands) =>
                   result' \in {"load_registry", "find_save", "get_registry"}
             /\ ExceptionOf("get_registry") = "ValueError"]_vars

C21_Witness ==
    /\ doc_version.remote # REMOTE_REGISTRY_VERSION
    /\ cmd = "upload"
    /\ key \in DOMAIN lreg
    /\ result = "get_registry"

\* a name with its letters in lower case, every run of blanks and
\* underscores between two words as one blank, and none around it
RECURSIVE Squeeze(_)
Squeeze(s) ==
    IF s = <<>> THEN <<>>
    ELSE IF IsSpaceOrUnderscore(Head(s))
         THEN LET rest == Squeeze(DropSeparators(Tail(s)))
              IN  IF rest = <<>> THEN <<>> ELSE <<" ">> \o rest
         ELSE <<Head(s)>> \o Squeeze(Tail(s))

SameWords(s) == Squeeze(DropSeparators(MapLower(s)))

\* a name with a blank in the place of every other non-alphanumeric character
Spaced(s) ==
    [i \in 1..Len(s) |->
        IF IsWordChar(s[i]) \/ IsSpaceOrUnderscore(s[i]) THEN s[i] ELSE " "]

\* C22 (as stated): normalize(a) = normalize(b) whenever a and b differ only
\* in letter case, in runs of whitespace or underscores between words, or in
\* non-alphanumeric characters replaced by spaces, as "Pascal's Wager" and
\* "pascal s wager" do.
C22_NormalizeIgnoresPunctuationSpacing ==
    output.fn = "normalize" =>
        \A b \in NameStrings :
            SameWords(Spaced(b)) = SameWords(Spaced(input.name)) =>
                normalize_name(b) = output.value

\* C22 (amended): normalize(a) = normalize(b) whenever a and b differ only in
\* letter case and in runs of whitespace or underscores between, before or
\* after the words.
C22_NormalizeIgnoresCaseAndSpacing ==
    output.fn = "normalize" =>
        \A b \in NameStrings :
            SameWords(b) = SameWords(input.name) => normalize_name(b) = output.value

C22_Witness ==
    /\ output.fn = "normalize"
    /\ input.name = <<"A", "'", "a">>
    /\ output.value = <<"a", "a">>
    /\ normalize_name(<<"_", "a", "A">>) = output.value

\* the tokens occur in the key one after the other, in this order
TokensInOrder(tokens, k) ==
    \E pos \in [1..Len(tokens) -> 1..Len(k)] :
        /\ \A i \in 1..Len(tokens) :
              /\ pos[i] + Len(tokens[i]) - 1 <= Len(k)
              /\ SubSeq(k, pos[i], pos[i] + Len(tokens[i]) - 1) = tokens[i]
        /\ \A i \in 1..(Len(tokens) - 1) : pos[i + 1] >= pos[i] + Len(tokens[i])

\* C23: normalized_search returns exactly normalize(query) when that is a key,
\* whatever else matches, and otherwise exactly the keys that contain the
\* tokens of the query in order; find_save returns the entry of the only
\* match, fails as not found when nothing matches and as ambiguous when more
\* than one key matches.
C23_SearchIsExactOrInOrder ==
    output.fn = "search" =>
        LET exact == normalize_name(input.query)
            expected == IF exact \in input.keys THEN {exact}
                        ELSE {k \in input.keys :
                                TokensInOrder(normalized_split(input.query), k)}
        IN  /\ output.results = expected
            /\ Cardinality(expected) = 0 => output.found.error = "SaveNotFoundError"
            /\ Cardinality(expected) > 1 => output.found.error = "MultipleSavesFoundError"
            /\ Cardinality(expected) = 1 =>
                  /\ output.found.error = "none"
                  /\ output.found.id_name \in expected

C23_Witness ==
    /\ output.fn = "search"
    /\ input.query = <<"A">>
    /\ input.keys = {<<"a">>, <<"a", "a">>, <<"a", "_", "a">>}
    /\ output.results = {<<"a">>}
    /\ output.found = [error |-> "none", id_name |-> <<"a">>]

\* the glob matches the whole path: a * stands for any run of characters,
\* every other character for itself, a separator of either kind for the
\* host's; e[i] is where the i-th character of the glob ends in the path
StarMatch(glob, path) ==
    \E e \in [1..Len(glob) -> 0..Len(path)] :
        LET from(i) == IF i = 1 THEN 0 ELSE e[i - 1]
        IN  /\ from(Len(glob) + 1) = Len(path)
            /\ \A i \in 1..Len(glob) :
                  IF glob[i] = "*" THEN e[i] >= from(i)
                  ELSE /\ e[i] = from(i) + 1
                       /\ path[e[i]] = (IF glob[i] = "\\" THEN "/" ELSE glob[i])

MutatingCalls == {"track", "edit", "untrack", "register", "remote_edit", "upload", "delete"}

\* C26: when a mutating registry call has returned, the persisted documents
\* are what the registries hold in memory: a fresh process loads both and
\* finds the same entries.
C26_PersistedRegistryLoadsBack ==
    (pc = "done" /\ result = "ok" /\ cmd \in MutatingCalls) =>
        /\ LocalLoads
        /\ RegistryLoads

\* C27: in both registries every entry is under the key normalize(its
\* display name) and its id_name is that key, whatever sequence of track,
\* copy, edit, untrack, register, remote edit, upload and delete has run.
C27_KeyIsNormalizedName ==
    /\ \A k \in DOMAIN lreg : normalize_name(lreg[k].name) = k /\ lreg[k].id_name = k
    /\ \A k \in DOMAIN rreg : normalize_name(rreg[k].name) = k /\ rreg[k].id_name = k

C27_Witness ==
    /\ cmd = "edit"
    /\ pc = "done"
    /\ result = "ok"
    /\ key = <<"a">>
    /\ <<"a">> \notin DOMAIN lreg \cup DOMAIN rreg
    /\ <<"b">> \in DOMAIN lreg \cap DOMAIN rreg
    /\ lreg[<<"b">>].name = <<"B">>
    /\ rreg[<<"b">>].name = <<"B">>

\* C29: track --copy of a name that finds one remote entry, when no local
\* entry has its key, adds a local entry under the key of the remote entry
\* with the remote display name, with root, filters and version taken from
\* the arguments where given and from root_hint, filters_hint and version of
\* the remote entry otherwise, and with a null last_sync; the other local
\* entries, the remote registry and the artifacts are as before.
C29_CopyAdoptsRemoteEntry ==
    [][(pc = "idle" /\ cmd' = "copy" /\ result' = "ok") =>
          \E k \in DOMAIN rreg :
              LET given(arg, hint) == IF arg = {} THEN {hint} ELSE arg
              IN  /\ k \notin DOMAIN lreg
                  /\ DOMAIN lreg' = DOMAIN lreg \cup {k}
                  /\ \A j \in DOMAIN lreg : lreg'[j] = lreg[j]
                  /\ lreg'[k].name = rreg[k].name
                  /\ lreg'[k].root \in given(mem'.args.root, rreg[k].root_hint)
                  /\ lreg'[k].filters \in given(mem'.args.filters, rreg[k].filters_hint)
                  /\ lreg'[k].version \in given(mem'.args.version, rreg[k].version)
                  /\ lreg'[k].last_sync = None
                  /\ UNCHANGED <<rreg, arts, files, tmp>>]_vars

C29_Witness ==
    /\ cmd = "copy"
    /\ result = "ok"
    /\ mem.args.root = {}
    /\ mem.args.version = {"v2"}
    /\ key \in DOMAIN rreg
    /\ key \in DOMAIN arts
    /\ lreg[key].root = rreg[key].root_hint
    /\ lreg[key].version = "v2"
    /\ rreg[key].version = "v1"

\* C28: edit sets each supplied field of the entry to the supplied value, an
\* empty filter expression included, and leaves the fields that were not
\* supplied as they were; the entry is then under the key of its name, and
\* every other entry is unchanged.
C28_EditSetsSuppliedFields ==
    output.fn = "edit" =>
        LET args == input.args
            old == input.registry[input.save_name]
            supplied(arg, was) == IF arg = {} THEN {was} ELSE arg
            id_name == IF args.new_name = {} THEN input.save_name
                       ELSE normalize_name(Value(args.new_name))
        IN  /\ id_name \in DOMAIN lreg
            /\ lreg[id_name].name \in supplied(args.new_name, old.name)
            /\ lreg[id_name].root \in supplied(args.root, old.root)
            /\ lreg[id_name].filters \in supplied(args.filters, old.filters)
            /\ lreg[id_name].version \in supplied(args.version, old.version)
            /\ lreg[id_name].last_sync \in supplied(args.last_sync, old.last_sync)
            /\ \A k \in DOMAIN input.registry \ {input.save_name} :
                  k \in DOMAIN lreg /\ lreg[k] = input.registry[k]

\* C30: the last modification of a save is the latest modification time of
\* the files its root and filters select, and it is null exactly when they
\* select no file, which is the case when the root does not exist.
C30_LastModIsLatestSelected ==
    output.fn = "last_mod" =>
        LET save == input.save
            selected == IF save.root \in DOMAIN files
                        THEN {f \in DOMAIN files[save.root] : Selects(save.filters, f)}
                        ELSE {}
        IN  /\ output.value = None <=> selected = {}
            /\ \A f \in selected : files[save.root][f].mtime <= output.value
            /\ selected # {} => \E f \in selected : files[save.root][f].mtime = output.value

\* C31: the previous invocation was a sync of this key that completed an
\* upload or a download, and nothing changed a file or the remote since it
\* started: this sync of the key decides that nothing is to be done, ends,
\* and changes neither registry, no artifact and no file.
C31_SyncAfterSyncIsNoop ==
    [][( /\ pc = "idle"
         /\ cmd' = "sync"
         /\ prev.key = key'
         /\ prev.decision \in {"upload", "download"}
         /\ prev.result = "ok" )
       => /\ decision' = "noop"
          /\ pc' = "done"
          /\ result' = "ok"
          /\ UNCHANGED Persisted]_vars

C31_Witness ==
    /\ cmd = "sync"
    /\ pc = "done"
    /\ decision = "noop"
    /\ prev.key = key
    /\ prev.decision = "download"
    /\ prev.result = "ok"
    /\ now > lreg[key].last_sync

\* C33: an upload has completed, and while it ran, after the files were
\* packed and before the timestamp was taken, a selected file was written
\* with a content the artifact does not hold: the next reconciliation finds
\* the save locally updated.
C33_ChangeDuringUploadIsSeen ==
    ( /\ pc = "done"
      /\ result = "ok"
      /\ cmd \in {"sync", "upload"}
      /\ mem.stamp # None
      /\ mem.touched
      /\ key \in DOMAIN lreg
      /\ key \in DOMAIN arts
      /\ \E f \in GetSaveFiles(lreg[key]) :
            f \notin DOMAIN arts[key] \/ arts[key][f] # files[lreg[key].root][f].data )
    => is_local_updated(GetLastModTime(lreg[key]), lreg[key].last_sync)

\* the step is command_edit renaming the save k
C34_Renames(k) ==
    pc = "idle" /\ cmd' = "edit" /\ result' = "ok" /\ key' = k

\* the key the save k is under after the step
C34_Moved(k) ==
    IF C34_Renames(k) THEN normalize_name(mem'.new_name) ELSE k

\* the step renames another save onto the key k: the save k is tracked no
\* more
C34_Replaced(k) ==
    \E j \in DOMAIN lreg \ {k} : C34_Renames(j) /\ C34_Moved(j) = k

C32_SyncReplaces ==
    /\ cmd = "sync" /\ pc = "up_file" /\ pc' = "up_rreg"
    /\ key \in DOMAIN arts

\* a sync of the key k starts in this step and the remote holds an upload
\* of k later than this machine's last_sync
C32_SyncStartsUnseen(k) ==
    /\ pc = "idle" /\ cmd' = "sync" /\ key' = k /\ result' = "ok"
    /\ k \in DOMAIN rreg
    /\ OrMinDate(rreg[k].last_upload) > OrMinDate(lreg[k].last_sync)

\* C32: two machines, one remote, one clock, commands one at a time on
\* either machine. A step of sync that replaces the stored artifact of its
\* key is taken only by a machine whose last_sync for the key is at least
\* the last_upload of the artifact it replaces; a sync that finds a
\* last_upload later than its last_sync decides download or conflict, and
\* such a sync never changes an artifact.
C32_SyncKeepsUnseenUpload ==
    [][/\ C32_SyncReplaces
          => /\ key \in DOMAIN rreg /\ key \in DOMAIN lreg
             /\ OrMinDate(lreg[key].last_sync) >= OrMinDate(rreg[key].last_upload)
       /\ \A k \in Keys :
             C32_SyncStartsUnseen(k) => decision' \in {"download", "conflict"}
       /\ (cmd = "sync" /\ decision \in {"download", "conflict"}) => arts' = arts]_vars

\* the second machine's sync has just replaced an artifact that the first
\* machine uploaded and the second had downloaded
C32_Witness ==
    /\ other.id = 1
    /\ cmd = "sync" /\ pc = "up_rreg" /\ decision = "upload"
    /\ key \in DOMAIN start.rreg /\ key \in DOMAIN other.lreg
    /\ other.lreg[key].last_sync = start.rreg[key].last_upload
    /\ lreg[key].last_sync >= start.rreg[key].last_upload
    /\ \E f \in DOMAIN arts[key] :
          /\ f \in DOMAIN other.files[other.lreg[key].root]
          /\ arts[key][f] # other.files[other.lreg[key].root][f].data

====
